---- MODULE Spec2Model ----
(***************************************************************************)
(* A model of src/src/markerclusterer.ts: the MarkerClusterer engine, its  *)
(* Cluster objects and the part of ClusterIcon that decides visibility.    *)
(*                                                                         *)
(* Numbers.  JavaScript numbers are modelled as exact rationals <<n, d>>   *)
(* (d > 0, lowest terms).  Marker positions are small integers, for which  *)
(* the products and sums of Cluster.addMarker are exact; only the division *)
(* of the running mean rounds in the real program.                         *)
(*                                                                         *)
(* Geometry.  The host projection is linear: PixelsPerDegree(zoom) pixels  *)
(* per degree on both axes, y growing to the south.  All markers of the    *)
(* engine specification lie on the equator, where the great-circle         *)
(* distance is R * |dLng| (in radians).                                    *)
(*                                                                         *)
(* Objects.  The mutable objects a handler can touch are gathered in one   *)
(* record, the world; a handler is a function from world to world.  A      *)
(* Cluster is named by its index in the world's cluster collection.        *)
(***************************************************************************)
EXTENDS Integers, Sequences, FiniteSets

\* ------------------------------------------------------------------ bounds
NumMarkers == 4        \* marker identities 1..NumMarkers
MaxMarkers == 4        \* longest `markers` list (a marker may be held twice)
MaxTimers == 1         \* pending deferred disposals of repaint
MaxPending == 2        \* pending deferred disposals when repaint is called again
MaxZoomLevel == 2      \* zoom levels 1..MaxZoomLevel
MaxCount == 12         \* longest array handed to the sum calculator
MaxStyles == 6         \* most styles handed to setStyles

\* ------------------------------------------------------ program constants
DefaultGridSize == 60          \* DEFAULT_MARKERCLUSTER_OPTIONS.gridSize
DefaultMinClusterSize == 2     \* DEFAULT_MARKERCLUSTER_OPTIONS.minClusterSize
LargeDistance == 40000         \* let distance = 40000
EarthRadius == 6371            \* const R = 6371
DefaultStyles == 5             \* sizes = [53, 56, 66, 78, 90], one style each

\* JavaScript null, per type: no rational has denominator 0.
NullNumber == 0
NullLatLng == [lat |-> <<0, 0>>, lng |-> <<0, 0>>]
NullBounds == [sw |-> NullLatLng, ne |-> NullLatLng]

MarkerIds == 1..NumMarkers
ZoomLevels == 1..MaxZoomLevel

\* ---------------------------------------------------------------- numbers
Abs(x) == IF x < 0 THEN -x ELSE x

RECURSIVE GCD(_, _)
GCD(a, b) == IF b = 0 THEN a ELSE GCD(b, a % b)

Lowest(n, d, g) == <<n \div g, d \div g>>
Rat(n, d) == Lowest(n, d, GCD(Abs(n), d))
RInt(k) == <<k, 1>>
RAdd(a, b) == Rat(a[1] * b[2] + b[1] * a[2], a[2] * b[2])
RNeg(a) == <<-a[1], a[2]>>
RSub(a, b) == RAdd(a, RNeg(b))
RMulInt(a, k) == Rat(a[1] * k, a[2])
RDivInt(a, k) == Rat(a[1], a[2] * k)
RLess(a, b) == a[1] * b[2] < b[1] * a[2]
RLeq(a, b) == a[1] * b[2] <= b[1] * a[2]
RAbs(a) == <<Abs(a[1]), a[2]>>
RMin(a, b) == IF RLess(b, a) THEN b ELSE a
RMax(a, b) == IF RLess(a, b) THEN b ELSE a

\* ------------------------------------------------- google.maps value types
LatLng(lat, lng) == [lat |-> lat, lng |-> lng]
Pt(lat, lng) == LatLng(RInt(lat), RInt(lng))

LatLngBounds(sw, ne) == [sw |-> sw, ne |-> ne]

contains(b, p) ==
    /\ RLeq(b.sw.lat, p.lat) /\ RLeq(p.lat, b.ne.lat)
    /\ RLeq(b.sw.lng, p.lng) /\ RLeq(p.lng, b.ne.lng)

extend(b, p) ==
    LatLngBounds(LatLng(RMin(b.sw.lat, p.lat), RMin(b.sw.lng, p.lng)),
                 LatLng(RMax(b.ne.lat, p.lat), RMax(b.ne.lng, p.lng)))

\* The host projection at a zoom level: 2 px per degree at level 1, doubling
\* with every level.
PixelsPerDegree(zoom) == 2 ^ zoom

fromLatLngToDivPixel(zoom, p) ==
    [x |-> RMulInt(p.lng, PixelsPerDegree(zoom)),
     y |-> RNeg(RMulInt(p.lat, PixelsPerDegree(zoom)))]

fromDivPixelToLatLng(zoom, px) ==
    LatLng(RNeg(RDivInt(px.y, PixelsPerDegree(zoom))),
           RDivInt(px.x, PixelsPerDegree(zoom)))

\* px.x += dx; px.y += dy
movePixel(px, dx, dy) ==
    [x |-> RAdd(px.x, RInt(dx)), y |-> RAdd(px.y, RInt(dy))]

\* ------------------------------------------------------------------ state
VARIABLES
    options,        \* the options object handed to the constructor
    gridSize,       \* MarkerClusterer.gridSize
    minClusterSize, \* MarkerClusterer.minClusterSize
    maxZoom,        \* MarkerClusterer.maxZoom
    averageCenter,  \* MarkerClusterer.averageCenter
    markers,        \* MarkerClusterer.markers: sequence of marker identities
    clusters,       \* MarkerClusterer.clusters: sequence of Cluster objects
    ready,          \* MarkerClusterer.ready
    prevZoom,       \* MarkerClusterer.prevZoom
    isAdded,        \* marker.isAdded, per marker
    onMap,          \* marker.getMap() == the engine's map, per marker
    pos,            \* marker.getPosition(), per marker
    listeners,      \* markers with a 'dragend' listener of this engine
    mapZoom,        \* map.getZoom()
    mapBounds,      \* map.getBounds()
    timers,         \* the pending window.setTimeout callbacks, oldest first:
                    \* of each, the identities of the clusters in its
                    \* oldClusters
    disposed,       \* the identities of the clusters that have been removed
                    \* and that the collection or a callback still refers to
    thrown,         \* the last handler ended in an uncaught TypeError
    styles,         \* MarkerClusterer.styles: the number of its styles
    icons,          \* the number of ClusterIcon overlays attached to the map
    returned        \* what the last direct call of Cluster.addMarker returned

vars == <<options, gridSize, minClusterSize, maxZoom, averageCenter, markers,
          clusters, ready, prevZoom, isAdded, onMap, pos, listeners, mapZoom,
          mapBounds, timers, disposed, thrown, icons, styles, returned>>

\* The world of the current state, at the start of a handler
World ==
    [gridSize |-> gridSize, minClusterSize |-> minClusterSize,
     maxZoom |-> maxZoom, averageCenter |-> averageCenter,
     markers |-> markers, clusters |-> clusters, ready |-> ready,
     prevZoom |-> prevZoom, isAdded |-> isAdded, onMap |-> onMap,
     pos |-> pos, listeners |-> listeners, mapZoom |-> mapZoom,
     mapBounds |-> mapBounds, timers |-> timers, icons |-> icons,
     disposed |-> disposed, thrown |-> FALSE]

\* All the identities of the sequence of sequences s, in order
RECURSIVE Flat(_)
Flat(s) == IF s = <<>> THEN <<>> ELSE Head(s) \o Flat(Tail(s))

\* Object identities are compared and never read, so a state stands for all
\* those that differ from it by a renaming of the Cluster objects: the
\* objects referred to are numbered from 1 in the order of the collection
\* followed by the pending callbacks.  ids is that order, and the value is
\* the number of the object id.
Numbered(ids, id) ==
    IF \E j \in 1..Len(ids) : ids[j] = id
    THEN Cardinality({ids[j] : j \in 1..(CHOOSE i \in 1..Len(ids) :
                                            /\ ids[i] = id
                                            /\ \A h \in 1..(i - 1) :
                                                  ids[h] # id)})
    ELSE 0

RenumberedClusters(w, ids) ==
    [k \in 1..Len(w.clusters) |->
        [w.clusters[k] EXCEPT !.id = Numbered(ids, @)]]

RenumberedTimers(w, ids) ==
    [t \in 1..Len(w.timers) |->
        [k \in 1..Len(w.timers[t]) |-> Numbered(ids, w.timers[t][k])]]

RenumberedDisposed(w, ids) == {Numbered(ids, id) : id \in w.disposed}

\* The identities of the objects the world w refers to, in order
InOrder(w) == [k \in 1..Len(w.clusters) |-> w.clusters[k].id] \o Flat(w.timers)

\* The next state holds the world w; the options object is never written,
\* and the styles are written by setStyles alone.
Becomes(w) ==
    /\ gridSize' = w.gridSize /\ minClusterSize' = w.minClusterSize
    /\ maxZoom' = w.maxZoom /\ averageCenter' = w.averageCenter
    /\ markers' = w.markers /\ ready' = w.ready
    /\ clusters' = RenumberedClusters(w, InOrder(w))
    /\ prevZoom' = w.prevZoom /\ isAdded' = w.isAdded /\ onMap' = w.onMap
    /\ pos' = w.pos /\ listeners' = w.listeners /\ mapZoom' = w.mapZoom
    /\ mapBounds' = w.mapBounds /\ icons' = w.icons
    /\ timers' = RenumberedTimers(w, InOrder(w))
    /\ disposed' = RenumberedDisposed(w, InOrder(w))
    /\ thrown' = w.thrown
    /\ options' = options /\ styles' = styles

InSeq(x, s) == \E i \in 1..Len(s) : s[i] = x

\* marker.setMap(map) / marker.setMap(null)
setMap(w, m, shown) == [w EXCEPT !.onMap[m] = shown]

\* marker.setMap of every marker of the array ms
setMapAll(w, ms, shown) ==
    [w EXCEPT !.onMap =
        [m \in MarkerIds |-> IF InSeq(m, ms) THEN shown ELSE @[m]]]

\* ------------------------------------------------ MarkerClusterer geometry
isMarkerInBounds_(w, m, bounds) == contains(bounds, w.pos[m])

getExtendedBounds(w, bounds) ==
    LET trPix == movePixel(fromLatLngToDivPixel(w.mapZoom, bounds.ne),
                           w.gridSize, 0 - w.gridSize)
        blPix == movePixel(fromLatLngToDivPixel(w.mapZoom, bounds.sw),
                           0 - w.gridSize, w.gridSize)
        ne == fromDivPixelToLatLng(w.mapZoom, trPix)
        sw == fromDivPixelToLatLng(w.mapZoom, blPix)
    IN extend(extend(bounds, ne), sw)

\* ---------------------------------------------------------------- Cluster
\* new ClusterIcon(cluster, styles, gridSize): visible_ = false, setMap(map_)
ClusterIcon ==
    [visible_ |-> FALSE, map_ |-> TRUE, center_ |-> NullLatLng]

\* The identities of the clusters s
Ids(s) == [k \in 1..Len(s) |-> s[k].id]

\* The identities of the Cluster objects the world w refers to: those of the
\* collection and those of the oldClusters of the pending callbacks
Referenced(w) ==
    {w.clusters[k].id : k \in 1..Len(w.clusters)}
        \cup UNION {{w.timers[t][k] : k \in 1..Len(w.timers[t])} :
                       t \in 1..Len(w.timers)}

\* The identity of a new object: the first one that no object referred to
\* has
NewId(w) ==
    CHOOSE n \in 1..(Cardinality(Referenced(w)) + 1) :
        /\ n \notin Referenced(w)
        /\ \A k \in 1..(n - 1) : k \in Referenced(w)

\* new Cluster(markerClusterer)
Cluster(w) ==
    [id |-> NewId(w),
     minClusterSize_ |-> w.minClusterSize,
     averageCenter_ |-> w.averageCenter,
     center_ |-> NullLatLng,
     markers_ |-> <<>>,
     bounds_ |-> NullBounds,
     clusterIcon_ |-> ClusterIcon]

\* A faulty isMarkerAlreadyAdded, which never finds the marker
isMarkerAlreadyAddedNever(w, i, m) == FALSE

isMarkerAlreadyAdded(w, i, m) == InSeq(m, w.clusters[i].markers_)

calculateBounds_(w, i) ==
    [w EXCEPT !.clusters[i].bounds_ =
        getExtendedBounds(w, LatLngBounds(w.clusters[i].center_,
                                          w.clusters[i].center_))]

\* A faulty isMarkerInClusterBounds, which finds every marker inside
isMarkerInClusterBoundsAlways(w, i, m) == TRUE

isMarkerInClusterBounds(w, i, m) == contains(w.clusters[i].bounds_, w.pos[m])

\* A faulty runningMean, which weighs the old center by l instead of l - 1
runningMeanOfCount(old, new, l) == RDivInt(RAdd(RMulInt(old, l), new), l)

\* The running mean of Cluster.addMarker, one coordinate: l is the member
\* count after the add.
runningMean(old, new, l) == RDivInt(RAdd(RMulInt(old, l - 1), new), l)

\* ClusterIcon.hide / ClusterIcon.show
hide(icon) == [icon EXCEPT !.visible_ = FALSE]
show(icon) == [icon EXCEPT !.visible_ = TRUE]

\* ClusterIcon.remove, and the onRemove the map answers setMap(null) with:
\* div is whether the map had called onAdd, so that div_ exists and is
\* hidden.
ClusterIconRemove(icon, div) ==
    [icon EXCEPT !.map_ = FALSE, !.visible_ = IF div THEN FALSE ELSE @]

\* markers_ = null
NullMarkers == <<0>>

\* Cluster.remove of a cluster that was not disposed before
ClusterRemove(c, div) ==
    [c EXCEPT !.clusterIcon_ = ClusterIconRemove(@, div),
              !.markers_ = NullMarkers]

\* A faulty updateIcon, which shows the icon whatever the member count
updateIconShowsAlways(w, i) ==
    [w EXCEPT !.clusters[i].clusterIcon_ = show(@)]

\* Cluster.updateIcon
updateIcon(w, i) ==
    IF w.maxZoom # NullNumber /\ w.mapZoom > w.maxZoom
    THEN setMapAll(w, w.clusters[i].markers_, TRUE)
    ELSE IF Len(w.clusters[i].markers_) < w.clusters[i].minClusterSize_
    THEN [w EXCEPT !.clusters[i].clusterIcon_ = hide(@)]
    ELSE [w EXCEPT !.clusters[i].clusterIcon_ =
                       show([@ EXCEPT !.center_ = w.clusters[i].center_])]

\* Cluster.addMarker, the center and the bounds
addMarkerCenter(w, i, m) ==
    IF w.clusters[i].center_ = NullLatLng
    THEN calculateBounds_([w EXCEPT !.clusters[i].center_ = w.pos[m]], i)
    ELSE IF w.clusters[i].averageCenter_
    THEN calculateBounds_(
             [w EXCEPT !.clusters[i].center_ =
                 LatLng(runningMean(@.lat, w.pos[m].lat,
                                    Len(w.clusters[i].markers_) + 1),
                        runningMean(@.lng, w.pos[m].lng,
                                    Len(w.clusters[i].markers_) + 1))], i)
    ELSE w

\* Cluster.addMarker, marker.isAdded = true and markers_.push(marker)
addMarkerPush(w, i, m) ==
    [w EXCEPT !.isAdded[m] = TRUE,
              !.clusters[i].markers_ = Append(@, m)]

\* Cluster.addMarker, the three tests on the member count after the push
showBelowMinimum(w, i, m) ==
    IF Len(w.clusters[i].markers_) < w.clusters[i].minClusterSize_
       /\ ~w.onMap[m]
    THEN setMap(w, m, TRUE) ELSE w

hideAllAtMinimum(w, i) ==
    IF Len(w.clusters[i].markers_) = w.clusters[i].minClusterSize_
    THEN setMapAll(w, w.clusters[i].markers_, FALSE) ELSE w

hideFromMinimum(w, i, m) ==
    IF Len(w.clusters[i].markers_) >= w.clusters[i].minClusterSize_
    THEN setMap(w, m, FALSE) ELSE w

addMarkerVisibility(w, i, m) ==
    hideFromMinimum(hideAllAtMinimum(showBelowMinimum(w, i, m), i), i, m)

\* Cluster.addMarker: the value is [w, ret]
ClusterAddMarker(w, i, m) ==
    IF isMarkerAlreadyAdded(w, i, m)
    THEN [w |-> w, ret |-> FALSE]
    ELSE [w |-> updateIcon(
                    addMarkerVisibility(
                        addMarkerPush(addMarkerCenter(w, i, m), i, m), i, m),
                    i),
          ret |-> TRUE]

\* ------------------------------------------- DEFAULT_CLUSTERIZER_FUNCTION
\* R * pi / 180, the kilometres of one degree of a great circle, to the
\* kilometre (pi as 22/7)
KmPerDegree == (EarthRadius * 22) \div (7 * 180)

\* distanceBetweenPoints for two points of the equator, where dLat = 0 and
\* both cosines are 1: a = sin^2(dLon / 2), c = |dLon| in radians, and the
\* distance R * c.
distanceBetweenPoints(p1, p2) ==
    IF p1 = NullLatLng \/ p2 = NullLatLng THEN RInt(0)
    ELSE RMulInt(RAbs(RSub(p2.lng, p1.lng)), KmPerDegree)

\* A faulty forEach, in which the last of the nearest clusters wins
RECURSIVE nearestClusterLast(_, _, _, _, _)
nearestClusterLast(w, m, i, distance, clusterToAddTo) ==
    IF i > Len(w.clusters) THEN clusterToAddTo
    ELSE IF w.clusters[i].center_ # NullLatLng
            /\ RLeq(distanceBetweenPoints(w.clusters[i].center_, w.pos[m]),
                    distance)
    THEN nearestClusterLast(w, m, i + 1,
             distanceBetweenPoints(w.clusters[i].center_, w.pos[m]), i)
    ELSE nearestClusterLast(w, m, i + 1, distance, clusterToAddTo)

\* The forEach over clusters from index i on: the value is the index of
\* clusterToAddTo (0: null).
RECURSIVE nearestCluster(_, _, _, _, _)
nearestCluster(w, m, i, distance, clusterToAddTo) ==
    IF i > Len(w.clusters) THEN clusterToAddTo
    ELSE IF w.clusters[i].center_ # NullLatLng
            /\ RLess(distanceBetweenPoints(w.clusters[i].center_, w.pos[m]),
                     distance)
    THEN nearestCluster(w, m, i + 1,
             distanceBetweenPoints(w.clusters[i].center_, w.pos[m]), i)
    ELSE nearestCluster(w, m, i + 1, distance, clusterToAddTo)

\* A faulty end of the clusterizer, which puts the new cluster in the
\* collection without its first marker
addToClusterEmpty(w, m, clusterToAddTo) ==
    IF clusterToAddTo # 0 /\ isMarkerInClusterBounds(w, clusterToAddTo, m)
    THEN ClusterAddMarker(w, clusterToAddTo, m).w
    ELSE [w EXCEPT !.clusters = Append(@, Cluster(w)), !.icons = @ + 1]

\* The end of the clusterizer, once clusterToAddTo is known.  The new
\* cluster takes its place in the collection before the marker is added to
\* it: nothing reads the collection in between.
addToCluster(w, m, clusterToAddTo) ==
    IF clusterToAddTo # 0 /\ isMarkerInClusterBounds(w, clusterToAddTo, m)
    THEN ClusterAddMarker(w, clusterToAddTo, m).w
    ELSE ClusterAddMarker([w EXCEPT !.clusters = Append(@, Cluster(w)),
                                    !.icons = @ + 1],
                          Len(w.clusters) + 1, m).w

DEFAULT_CLUSTERIZER_FUNCTION(w, m) ==
    addToCluster(w, m, nearestCluster(w, m, 1, RInt(LargeDistance), 0))

\* -------------------------------------------------------- MarkerClusterer
addToClosestCluster_(w, m) == DEFAULT_CLUSTERIZER_FUNCTION(w, m)

\* The markers.forEach of createClusters_ over the rest ms of the list
RECURSIVE createClustersLoop(_, _, _)
createClustersLoop(w, ms, bounds) ==
    IF ms = <<>> THEN w
    ELSE createClustersLoop(
             IF ~w.isAdded[Head(ms)] /\ isMarkerInBounds_(w, Head(ms), bounds)
             THEN addToClosestCluster_(w, Head(ms)) ELSE w,
             Tail(ms), bounds)

\* A faulty createClusters_, which does not test ready
createClustersUnready(w) ==
    createClustersLoop(w, w.markers,
        getExtendedBounds(w, LatLngBounds(w.mapBounds.sw, w.mapBounds.ne)))

createClusters_(w) ==
    IF ~w.ready THEN w
    ELSE createClustersLoop(w, w.markers,
             getExtendedBounds(w, LatLngBounds(w.mapBounds.sw,
                                               w.mapBounds.ne)))

redraw(w) == createClusters_(w)

\* What is left of the rest r of a handler once a call has thrown
redrawUnlessThrown(r) == IF r.thrown THEN r ELSE redraw(r)

\* cluster.remove() of the cluster with identity id, not disposed before: its
\* icon leaves the map.  The object is the one of the collection, if the
\* collection holds it.
removeOne(w, id) ==
    [w EXCEPT
        !.disposed = @ \cup {id},
        !.icons = @ - 1,
        !.clusters = [k \in 1..Len(@) |->
                         IF @[k].id = id THEN ClusterRemove(@[k], TRUE)
                         ELSE @[k]]]

\* clusters.forEach(cluster => cluster.remove()) over the clusters with the
\* identities ids: the remove of a disposed cluster throws, which ends the
\* forEach and the handler around it.
RECURSIVE removeEach(_, _)
removeEach(w, ids) ==
    IF ids = <<>> THEN w
    ELSE IF Head(ids) \in w.disposed THEN [w EXCEPT !.thrown = TRUE]
    ELSE removeEach(removeOne(w, Head(ids)), Tail(ids))

\* The objects nothing refers to any more are forgotten
collect(w) == [w EXCEPT !.disposed = @ \cap Referenced(w)]

\* A faulty resetViewport, which leaves the markers as they are
resetViewportOfClusters(w, hideMarker) ==
    collect([removeEach(w, Ids(w.clusters)) EXCEPT !.clusters = <<>>])

\* resetViewport after its first forEach, which left the world r: the
\* collection is replaced by an empty one, which drops its clusters; every
\* marker of the list loses isAdded and, if hideMarker, leaves the map.
resetMarkers(r, hideMarker) ==
    IF r.thrown THEN r
    ELSE collect(
             [r EXCEPT
                 !.clusters = <<>>,
                 !.isAdded = [m \in MarkerIds |->
                                 IF InSeq(m, r.markers) THEN FALSE ELSE @[m]],
                 !.onMap = [m \in MarkerIds |->
                               IF hideMarker /\ InSeq(m, r.markers)
                               THEN FALSE ELSE @[m]]])

\* resetViewport: every cluster of the collection is disposed, then
\* resetMarkers.
resetViewport(w, hideMarker) ==
    resetMarkers(removeEach(w, Ids(w.clusters)), hideMarker)

\* A faulty repaint, which leaves the old clusters in the collection for
\* resetViewport to remove at once
repaintRemovesAtOnce(w) ==
    [redraw(resetViewport(w, FALSE)) EXCEPT !.timers = Append(@, <<>>)]

\* A faulty repaint, which takes oldClusters and leaves the collection as
\* it is
repaintOfCollection(w) ==
    redrawUnlessThrown(
        resetViewport([w EXCEPT !.timers = Append(@, Ids(w.clusters))],
                      FALSE))

\* repaint after resetViewport, which left the world r: if it threw, no
\* callback is scheduled
repaintRest(r) ==
    IF r.thrown THEN [r EXCEPT !.timers = SubSeq(@, 1, Len(@) - 1)]
    ELSE redraw(r)

\* repaint: oldClusters is reachable from the scheduled callback alone, which
\* removes its clusters and nothing else, so a pending callback keeps the
\* identities of its clusters, whose icons are on the map until it runs.
\* They are kept from the slice on, before the callback is scheduled.
repaint(w) ==
    repaintRest(
        resetViewport([w EXCEPT !.clusters = <<>>,
                                !.timers = Append(@, Ids(w.clusters))],
                      FALSE))

pushMarkerTo(w, m, draggable) ==
    [w EXCEPT !.isAdded[m] = FALSE,
              !.listeners = IF draggable THEN @ \cup {m} ELSE @,
              !.markers = Append(@, m)]

addMarker(w, m, draggable, noRedraw) ==
    IF ~noRedraw THEN redraw(pushMarkerTo(w, m, draggable))
    ELSE pushMarkerTo(w, m, draggable)

\* The forEach of addMarkers; draggable is the set of draggable markers
RECURSIVE pushAll(_, _, _)
pushAll(w, ms, draggable) ==
    IF ms = <<>> THEN w
    ELSE pushAll(pushMarkerTo(w, Head(ms), Head(ms) \in draggable),
                 Tail(ms), draggable)

addMarkers(w, ms, draggable, noRedraw) ==
    IF ~noRedraw THEN redraw(pushAll(w, ms, draggable))
    ELSE pushAll(w, ms, draggable)

\* markers.indexOf(marker): 0 stands for -1
indexOf(s, x) ==
    IF InSeq(x, s) THEN CHOOSE i \in 1..Len(s) :
                            s[i] = x /\ \A j \in 1..(i - 1) : s[j] # x
    ELSE 0

\* s.splice(index, 1)
splice(s, index) ==
    [i \in 1..(Len(s) - 1) |-> IF i < index THEN s[i] ELSE s[i + 1]]

\* removeMarker_: the value is [w, ret]
removeMarker_(w, m) ==
    IF indexOf(w.markers, m) = 0 THEN [w |-> w, ret |-> FALSE]
    ELSE [w |-> [setMap(w, m, FALSE) EXCEPT
                    !.markers = splice(@, indexOf(w.markers, m))],
          ret |-> TRUE]

\* The end of removeMarker and of removeMarkers, r the removal so far
redrawIfRemoved(r, noRedraw) ==
    IF ~noRedraw /\ r.ret
    THEN [w |-> redrawUnlessThrown(resetViewport(r.w, FALSE)), ret |-> TRUE]
    ELSE [w |-> r.w, ret |-> FALSE]

\* removeMarker: the value is [w, ret]
removeMarker(w, m, noRedraw) == redrawIfRemoved(removeMarker_(w, m), noRedraw)

\* The forEach of removeMarkers: the value is [w, ret], ret the flag removed
RECURSIVE removeAll(_, _, _)
removeAll(w, ms, removed) ==
    IF ms = <<>> THEN [w |-> w, ret |-> removed]
    ELSE removeAll(removeMarker_(w, Head(ms)).w, Tail(ms),
                   removed \/ removeMarker_(w, Head(ms)).ret)

\* removeMarkers: the value is [w, ret]
removeMarkers(w, ms, noRedraw) ==
    redrawIfRemoved(removeAll(w, ms, FALSE), noRedraw)

\* A faulty setReady_, which computes no clusters
setReadyOnly(w, rdy) == [w EXCEPT !.ready = rdy]

setReady_(w, rdy) ==
    IF ~w.ready THEN createClusters_([w EXCEPT !.ready = rdy]) ELSE w

onAdd(w) == setReady_(w, TRUE)

\* clearMarkers after resetViewport, which left the world r
clearList(r) == IF r.thrown THEN r ELSE [r EXCEPT !.markers = <<>>]

\* A faulty clearMarkers, which leaves the markers on the map
clearMarkersShown(w) == clearList(resetViewport(w, FALSE))

clearMarkers(w) == clearList(resetViewport(w, TRUE))

\* A faulty 'zoom_changed' listener, which records the zoom and resets
\* nothing
zoomChangedKeeps(w) == [w EXCEPT !.prevZoom = w.mapZoom]

\* The 'zoom_changed' listener of the constructor
zoomChangedListener(w) ==
    IF w.prevZoom # w.mapZoom
    THEN resetViewport([w EXCEPT !.prevZoom = w.mapZoom], FALSE)
    ELSE w

\* The 'idle' listener of the constructor
idleListener(w) == redraw(w)

\* The 'dragend' listener of pushMarkerTo
dragendListener(w, m) == repaint([w EXCEPT !.isAdded[m] = FALSE])

\* A faulty callback, which disposes of the clusters of the collection with
\* its old clusters and resets the markers
timeoutCallbackOfAll(w) ==
    resetViewport(
        [removeEach(w, Head(w.timers)) EXCEPT !.timers = Tail(@)], FALSE)

\* The oldest window.setTimeout callback of repaint: its old clusters are
\* disposed, and nothing refers to them any more.
timeoutCallback(w) ==
    collect([removeEach(w, Head(w.timers)) EXCEPT !.timers = Tail(@)])

\* ------------------------------------------------------------ constructor
\* options[k] || defaultOptions[k], for a number and for a boolean: 0 and
\* false are falsy, as a missing key is.
numberOr(v, default) == IF v # NullNumber THEN v ELSE default
booleanOr(v, default) == IF v THEN v ELSE default

\* The state the constructor leaves, given its options
Constructed(opts) ==
    /\ options = opts
    /\ gridSize = numberOr(opts.gridSize, DefaultGridSize)
    /\ minClusterSize = numberOr(opts.minClusterSize, DefaultMinClusterSize)
    /\ maxZoom = numberOr(opts.maxZoom, NullNumber)
    /\ averageCenter = booleanOr(opts.averageCenter, TRUE)
    /\ markers = <<>>
    /\ clusters = <<>>
    /\ ready = FALSE
    /\ prevZoom = mapZoom
    /\ listeners = {}
    /\ timers = <<>>
    /\ disposed = {}
    /\ thrown = FALSE
    /\ icons = 0
    /\ styles = numberOr(opts.styles, DefaultStyles)
    /\ returned = "none"

\* ------------------------------------------ the engine and its host: Spec
\* An engine constructed with no option set, on a map showing one of two
\* viewports at one of the zoom levels.  The application owns the markers
\* MarkerIds, on the equator at longitudes 0, 29, 43, 52, ...: it hands
\* marker 1 to addMarker and removeMarker, and the others as one array to
\* addMarkers and removeMarkers.  Marker 1 is draggable, and the user drops
\* it at longitude 0 or 60.
NoOptions ==
    [gridSize |-> NullNumber, minClusterSize |-> NullNumber,
     maxZoom |-> NullNumber, averageCenter |-> FALSE, styles |-> NullNumber]
Draggable == {1}
InitPos ==
    [m \in MarkerIds |->
        Pt(0, IF m <= 4 THEN <<0, 29, 43, 52>>[m] ELSE 50 + m)]
DragTargets == {Pt(0, 0), Pt(0, 60)}
Viewports == {LatLngBounds(Pt(-1, 0), Pt(1, 30)),
              LatLngBounds(Pt(-1, 50), Pt(1, 70))}
Singles == {1}
MarkerLists == {[k \in 1..(NumMarkers - 1) |-> k + 1]}

Init ==
    /\ mapZoom \in ZoomLevels
    /\ mapBounds \in Viewports
    /\ Constructed(NoOptions)
    /\ isAdded = [m \in MarkerIds |-> FALSE]
    /\ onMap = [m \in MarkerIds |-> FALSE]
    /\ pos = InitPos

AddMarker(m, noRedraw) ==
    /\ Len(markers) < MaxMarkers
    /\ Becomes(addMarker(World, m, m \in Draggable, noRedraw))
    /\ UNCHANGED returned

AddMarkers(ms, noRedraw) ==
    /\ Len(markers) + Len(ms) <= MaxMarkers
    /\ Becomes(addMarkers(World, ms, Draggable, noRedraw))
    /\ UNCHANGED returned

RemoveMarker(m, noRedraw) ==
    /\ Becomes(removeMarker(World, m, noRedraw).w)
    /\ UNCHANGED returned

RemoveMarkers(ms, noRedraw) ==
    /\ Becomes(removeMarkers(World, ms, noRedraw).w)
    /\ UNCHANGED returned

ClearMarkers ==
    /\ Becomes(clearMarkers(World))
    /\ UNCHANGED returned

\* The host attaches the overlay
OnAdd ==
    /\ Becomes(onAdd(World))
    /\ UNCHANGED returned

\* The map fires 'idle'
Idle ==
    /\ Becomes(idleListener(World))
    /\ UNCHANGED returned

\* The user zooms: the map fires 'zoom_changed'
ZoomChanged(zoom) ==
    /\ Becomes(zoomChangedListener([World EXCEPT !.mapZoom = zoom]))
    /\ UNCHANGED returned

\* The user pans: no listener of the engine runs before the next 'idle'
Pan(bounds) ==
    /\ bounds # mapBounds
    /\ Becomes([World EXCEPT !.mapBounds = bounds])
    /\ UNCHANGED returned

Repaint ==
    /\ Len(timers) < MaxTimers
    /\ Becomes(repaint(World))
    /\ UNCHANGED returned

\* The user drops the draggable marker m at p: the marker fires 'dragend'
DragEnd(m, p) ==
    /\ m \in listeners
    /\ Len(timers) < MaxTimers
    /\ Becomes(dragendListener([World EXCEPT !.pos[m] = p], m))
    /\ UNCHANGED returned

\* A callback scheduled by repaint runs
Timeout ==
    /\ timers # <<>>
    /\ Becomes(timeoutCallback(World))
    /\ UNCHANGED returned

Next ==
    \/ \E m \in Singles, noRedraw \in BOOLEAN : AddMarker(m, noRedraw)
    \/ \E ms \in MarkerLists, noRedraw \in BOOLEAN : AddMarkers(ms, noRedraw)
    \/ \E m \in Singles, noRedraw \in BOOLEAN : RemoveMarker(m, noRedraw)
    \/ \E ms \in MarkerLists, noRedraw \in BOOLEAN :
          RemoveMarkers(ms, noRedraw)
    \/ ClearMarkers
    \/ OnAdd
    \/ Idle
    \/ \E zoom \in ZoomLevels : ZoomChanged(zoom)
    \/ \E bounds \in Viewports : Pan(bounds)
    \/ Repaint
    \/ \E m \in MarkerIds, p \in DragTargets : DragEnd(m, p)
    \/ Timeout

Spec == Init /\ [][Next]_vars

\* ------------------------------------- the engine and its grid: SpecGrid
\* The engine of Spec with an application that adds markers and changes the
\* grid size, so that the clusters of one collection can have bounds of
\* different widths, on a map that is panned and zoomed.
setGridSize(w, size) == [w EXCEPT !.gridSize = size]

GridSizes == {20, DefaultGridSize}

SetGridSize(size) ==
    /\ size # gridSize
    /\ Becomes(setGridSize(World, size))
    /\ UNCHANGED returned

NextGrid ==
    \/ \E m \in Singles, noRedraw \in BOOLEAN : AddMarker(m, noRedraw)
    \/ \E ms \in MarkerLists, noRedraw \in BOOLEAN : AddMarkers(ms, noRedraw)
    \/ OnAdd
    \/ Idle
    \/ \E zoom \in ZoomLevels : ZoomChanged(zoom)
    \/ \E bounds \in Viewports : Pan(bounds)
    \/ \E size \in GridSizes : SetGridSize(size)

SpecGrid == Init /\ [][NextGrid]_vars

\* ------------------------------ repaint called again: SpecPending
\* The engine of Spec with an application that calls repaint again before
\* the callback of an earlier repaint has run: up to MaxPending callbacks
\* wait, each with its own old clusters.
RepaintAgain ==
    /\ Len(timers) < MaxPending
    /\ Becomes(repaint(World))
    /\ UNCHANGED returned

NextPending ==
    \/ \E m \in Singles, noRedraw \in BOOLEAN : AddMarker(m, noRedraw)
    \/ \E ms \in MarkerLists, noRedraw \in BOOLEAN : AddMarkers(ms, noRedraw)
    \/ \E m \in Singles, noRedraw \in BOOLEAN : RemoveMarker(m, noRedraw)
    \/ ClearMarkers
    \/ OnAdd
    \/ Idle
    \/ \E zoom \in ZoomLevels : ZoomChanged(zoom)
    \/ \E bounds \in Viewports : Pan(bounds)
    \/ RepaintAgain
    \/ Timeout

SpecPending == Init /\ [][NextPending]_vars

\* ------------------------------- the engine and equal distances: SpecTie
\* The engine of SpecGrid with markers at longitudes 20, 0, 40, 80: marker
\* 1 lies halfway between markers 2 and 3.
TiePos ==
    [m \in MarkerIds |->
        Pt(0, IF m <= 4 THEN <<20, 0, 40, 80>>[m] ELSE 100 + m)]

InitTie ==
    /\ mapZoom \in ZoomLevels
    /\ mapBounds \in Viewports
    /\ Constructed(NoOptions)
    /\ isAdded = [m \in MarkerIds |-> FALSE]
    /\ onMap = [m \in MarkerIds |-> FALSE]
    /\ pos = TiePos

SpecTie == InitTie /\ [][NextGrid]_vars

\* ---------------------------------------------- one Cluster: SpecCluster
\* An engine constructed with one of a few option objects, and one Cluster
\* constructed on it by the caller, who then hands it markers one by one
\* through Cluster.addMarker.  The cluster is kept in slot 1 of the engine's
\* collection, which nothing reads in this specification.  The markers lie
\* at (1, 0), (4, 1), (9, 2), ..., and are either all on the map or all off
\* it to begin with.
ClusterOptions ==
    [gridSize : {NullNumber}, minClusterSize : {NullNumber, 1, 3},
     maxZoom : {NullNumber, 1}, averageCenter : BOOLEAN,
     styles : {NullNumber}]
ClusterPos == [m \in MarkerIds |-> Pt(m * m, m - 1)]

InitCluster ==
    /\ mapZoom \in ZoomLevels
    /\ mapBounds = LatLngBounds(Pt(-1, 0), Pt(1, 30))
    /\ \E opts \in ClusterOptions : Constructed(opts)
    /\ isAdded = [m \in MarkerIds |-> FALSE]
    /\ onMap \in {[m \in MarkerIds |-> FALSE], [m \in MarkerIds |-> TRUE]}
    /\ pos = ClusterPos

\* new Cluster(markerClusterer)
NewCluster ==
    /\ clusters = <<>>
    /\ Becomes([World EXCEPT !.clusters = <<Cluster(World)>>,
                              !.icons = @ + 1])
    /\ UNCHANGED returned

\* A call that leaves the world r.w and returns r.ret
Returns(r) ==
    /\ Becomes(r.w)
    /\ returned' = IF r.ret THEN "true" ELSE "false"

\* cluster.addMarker(m)
ClusterAdd(m) ==
    /\ clusters # <<>>
    /\ Returns(ClusterAddMarker(World, 1, m))

NextCluster ==
    \/ NewCluster
    \/ \E m \in MarkerIds : ClusterAdd(m)

SpecCluster == InitCluster /\ [][NextCluster]_vars

\* ------------------------------- one Cluster and its disposal: SpecDispose
\* SpecCluster with a caller that also removes the cluster, calls addMarker
\* on it afterwards and changes the maximum zoom of the engine.  A call that
\* dereferences markers_ = null throws a TypeError where it stands.

\* cluster.remove(): the value is [w, ret], ret "TypeError" when the call
\* throws.  The second statement, this.markers_.length = 0, throws on a
\* disposed cluster; clusterIcon_.remove() before it finds the icon off the
\* map already.
remove(w, i, div) ==
    IF w.clusters[i].markers_ = NullMarkers
    THEN [w |-> w, ret |-> "TypeError"]
    ELSE [w |-> [w EXCEPT !.clusters[i] = ClusterRemove(@, div),
                          !.disposed = @ \cup {w.clusters[i].id},
                          !.icons = IF w.clusters[i].clusterIcon_.map_
                                    THEN @ - 1 ELSE @],
          ret |-> "undefined"]

\* cluster.addMarker(m) of a cluster that may have been disposed:
\* isMarkerAlreadyAdded calls markers_.indexOf
addMarkerOrThrow(w, i, m) ==
    IF w.clusters[i].markers_ = NullMarkers
    THEN [w |-> w, ret |-> "TypeError"]
    ELSE [w |-> ClusterAddMarker(w, i, m).w,
          ret |-> IF ClusterAddMarker(w, i, m).ret THEN "true" ELSE "false"]

setMaxZoom(w, zoom) == [w EXCEPT !.maxZoom = zoom]

\* A call that leaves the world r.w and returns or throws r.ret
Completes(r) ==
    /\ Becomes(r.w)
    /\ returned' = r.ret

ClusterAddOrThrow(m) ==
    /\ clusters # <<>>
    /\ Completes(addMarkerOrThrow(World, 1, m))

ClusterRemoveCall(div) ==
    /\ clusters # <<>>
    /\ Completes(remove(World, 1, div))

SetMaxZoom(zoom) ==
    /\ Becomes(setMaxZoom(World, zoom))
    /\ UNCHANGED returned

NextDispose ==
    \/ NewCluster
    \/ \E m \in MarkerIds : ClusterAddOrThrow(m)
    \/ \E div \in BOOLEAN : ClusterRemoveCall(div)
    \/ \E zoom \in ZoomLevels : SetMaxZoom(zoom)

SpecDispose == InitCluster /\ [][NextDispose]_vars

\* ------------------------------- the default sum calculator: SpecSum
\* dv after index divisions of the member count n by 10 is 0: a double is
\* 0 once the quotient n / 10^index is no more than 2^-1075, half the
\* smallest positive double, which is 24703 * 10^-328 to five digits.  No
\* quotient of a count is that small before 324 divisions.  (This agrees
\* with the division in doubles for every count up to 24.)
dvIsZero(n, index) ==
    IF index = 0 THEN n = 0
    ELSE /\ index >= 324
         /\ (index >= 328 \/ n * (10 ^ (328 - index)) <= 24703)

\* while (dv !== 0) { dv = dv / 10; index++; }: index when the loop ends,
\* the first one at which dv is 0
divideLoop(n) ==
    CHOOSE index \in 0..328 :
        dvIsZero(n, index) /\ \A i \in 0..(index - 1) : ~dvIsZero(n, i)

\* Math.min
Min(a, b) == IF a < b THEN a ELSE b

DEFAULT_SUMCALCULATOR_FUNCTION(ms, numStyles) ==
    [text |-> Len(ms), index |-> Min(divideLoop(Len(ms)), numStyles)]

setStyles(n) == styles' = n

\* An array of n markers
ArrayOf(n) == [k \in 1..n |-> 1 + (k % NumMarkers)]

\* An engine constructed with no option set, whose application sets styles
\* and calls the calculator of the engine, the default one, as updateIcon
\* does: on an array of markers and the number of styles of the engine.
InitSum ==
    /\ mapZoom \in ZoomLevels
    /\ mapBounds \in Viewports
    /\ Constructed(NoOptions)
    /\ isAdded = [m \in MarkerIds |-> FALSE]
    /\ onMap = [m \in MarkerIds |-> FALSE]
    /\ pos = InitPos

SetStyles(n) ==
    /\ setStyles(n)
    /\ UNCHANGED <<options, gridSize, minClusterSize, maxZoom, averageCenter,
                   markers, clusters, ready, prevZoom, isAdded, onMap, pos,
                   listeners, mapZoom, mapBounds, timers, disposed, thrown,
                   icons, returned>>

Calculate(n) ==
    /\ returned' = DEFAULT_SUMCALCULATOR_FUNCTION(ArrayOf(n), styles)
    /\ UNCHANGED <<options, gridSize, minClusterSize, maxZoom, averageCenter,
                   markers, clusters, ready, prevZoom, isAdded, onMap, pos,
                   listeners, mapZoom, mapBounds, timers, disposed, thrown,
                   icons, styles>>

NextSum ==
    \/ \E n \in 0..MaxStyles : SetStyles(n)
    \/ \E n \in 1..MaxCount : Calculate(n)

SpecSum == InitSum /\ [][NextSum]_vars

\* ------------------------------------------------------------- properties
\* The clusters of the world w that hold marker m
InCluster(w, m) ==
    {i \in 1..Len(w.clusters) : InSeq(m, w.clusters[i].markers_)}

\* The viewport of the world w, padded by the grid size
PaddedViewport(w) ==
    getExtendedBounds(w, LatLngBounds(w.mapBounds.sw, w.mapBounds.ne))

\* The markers the world w holds inside its padded viewport
HeldInViewport(w) ==
    {m \in MarkerIds :
        InSeq(m, w.markers) /\ contains(PaddedViewport(w), w.pos[m])}

\* C1: a recomputation (createClusters_ on a ready engine) leaves every held
\* marker of the padded viewport in exactly one cluster of the collection.
C1_Partition ==
    ready => \A m \in HeldInViewport(World) :
                Cardinality(InCluster(createClusters_(World), m)) = 1

\* C2: in every reachable state each marker is a member of at most one
\* cluster of the collection.
C2_AtMostOneCluster ==
    \A m \in MarkerIds : Cardinality(InCluster(World, m)) <= 1

\* C3: in every reachable state every member of a cluster of the collection
\* is in the markers list.
C3_MembersAreHeld ==
    \A m \in MarkerIds : InCluster(World, m) # {} => InSeq(m, markers)

\* C4: removeMarker returns true exactly when the marker was in the markers
\* list (and is removed), for both values of noRedraw, and a call returning
\* false leaves the markers list and the collection as they were.
C4_RemoveMarkerReturn ==
    \A m \in MarkerIds, noRedraw \in BOOLEAN :
        /\ removeMarker(World, m, noRedraw).ret = InSeq(m, markers)
        /\ ~removeMarker(World, m, noRedraw).ret =>
              /\ removeMarker(World, m, noRedraw).w.markers = markers
              /\ removeMarker(World, m, noRedraw).w.clusters = clusters

\* C5: while the engine is not ready the collection is empty and no marker
\* is assigned, and addMarker still appends to the markers list without
\* clustering.
C5_NotReady ==
    ~ready =>
        /\ clusters = <<>>
        /\ \A m \in MarkerIds : ~isAdded[m]
        /\ \A m \in MarkerIds, noRedraw \in BOOLEAN :
              /\ addMarker(World, m, FALSE, noRedraw).markers
                     = Append(markers, m)
              /\ addMarker(World, m, FALSE, noRedraw).clusters = <<>>

\* A not-ready engine that holds markers after several calls, repaint among
\* them
C5_Witness == ~ready /\ Len(markers) >= 2 /\ timers # <<>>

\* C6: onAdd on an engine that is not ready makes it ready and, in that
\* step, assigns every held marker of the padded viewport to a cluster.
C6_AttachClusters ==
    ~ready =>
        /\ onAdd(World).ready
        /\ \A m \in HeldInViewport(World) :
              /\ onAdd(World).isAdded[m]
              /\ InCluster(onAdd(World), m) # {}

\* A not-ready engine holding every marker, one of them outside the padded
\* viewport, which onAdd clusters
C6_Witness ==
    /\ ~ready
    /\ Len(markers) = NumMarkers
    /\ HeldInViewport(World) # {}
    /\ \E m \in MarkerIds : InSeq(m, markers) /\ m \notin HeldInViewport(World)
    /\ onAdd(World).clusters # <<>>

\* The zoom does not exceed the maximum cluster zoom
ZoomClusters == maxZoom = NullNumber \/ mapZoom <= maxZoom

\* C7: at a zoom that clusters, a cluster with fewer members than its
\* minimum size shows each member and hides its icon; from the minimum size
\* on every member is hidden and the icon is visible.
C7_Threshold ==
    (clusters # <<>> /\ ZoomClusters) =>
        /\ (Len(clusters[1].markers_) >= 1
            /\ Len(clusters[1].markers_) < clusters[1].minClusterSize_) =>
              /\ \A m \in MarkerIds :
                    InSeq(m, clusters[1].markers_) => onMap[m]
              /\ ~clusters[1].clusterIcon_.visible_
        /\ Len(clusters[1].markers_) >= clusters[1].minClusterSize_ =>
              /\ \A m \in MarkerIds :
                    InSeq(m, clusters[1].markers_) => ~onMap[m]
              /\ clusters[1].clusterIcon_.visible_

\* A cluster of minimum size 3 that has just reached 3 members, with markers
\* that were on the map to begin with
C7_Witness ==
    /\ clusters # <<>> /\ ZoomClusters
    /\ clusters[1].minClusterSize_ = 3
    /\ Len(clusters[1].markers_) = 3
    /\ clusters[1].clusterIcon_.visible_
    /\ \E m \in MarkerIds : onMap[m]

\* C8: Cluster.addMarker of a member returns false and changes nothing.
C8_ReAdd ==
    clusters # <<>> =>
        \A m \in MarkerIds :
            InSeq(m, clusters[1].markers_) =>
                ClusterAddMarker(World, 1, m) = [w |-> World, ret |-> FALSE]

\* A cluster of two members or more whose last call was a re-add
C8_Witness ==
    /\ clusters # <<>>
    /\ Len(clusters[1].markers_) >= 2
    /\ returned = "false"

RECURSIVE RSum(_)
RSum(s) == IF s = <<>> THEN RInt(0) ELSE RAdd(Head(s), RSum(Tail(s)))

\* The arithmetic mean of the positions of the markers ms
MeanPosition(ms) ==
    LatLng(RDivInt(RSum([k \in 1..Len(ms) |-> pos[ms[k]].lat]), Len(ms)),
           RDivInt(RSum([k \in 1..Len(ms) |-> pos[ms[k]].lng]), Len(ms)))

\* C9: the center of an average-center cluster is the arithmetic mean of
\* its members' positions, whatever the order they were added in.
C9_MeanCenter ==
    \A i \in 1..Len(clusters) :
        (clusters[i].averageCenter_ /\ clusters[i].markers_ # <<>>) =>
            clusters[i].center_ = MeanPosition(clusters[i].markers_)

\* An average-center cluster whose three members joined in the order 3, 1, 2
C9_Witness ==
    /\ clusters # <<>>
    /\ clusters[1].averageCenter_
    /\ clusters[1].markers_ = <<3, 1, 2>>

\* C10: in an engine constructed with averageCenter: false, the center of a
\* cluster with members is the position of its first member, and its bounds
\* are those computed around it.
C10_FixedCenter ==
    options.averageCenter = FALSE =>
        \A i \in 1..Len(clusters) :
            clusters[i].markers_ # <<>> =>
                /\ clusters[i].center_ = pos[clusters[i].markers_[1]]
                /\ clusters[i].bounds_ =
                       getExtendedBounds(World,
                           LatLngBounds(pos[clusters[i].markers_[1]],
                                        pos[clusters[i].markers_[1]]))

\* The markers of the list of the world w
Held(w) == {m \in MarkerIds : InSeq(m, w.markers)}

\* C11: a step that changes the zoom leaves the collection empty, the icon
\* of every cluster that was in it off the map, and no held marker
\* assigned; a 'zoom_changed' at the zoom last seen changes nothing.
C11_ZoomReset ==
    /\ [](\A zoom \in ZoomLevels :
             zoom = prevZoom =>
                 zoomChangedListener([World EXCEPT !.mapZoom = zoom]) = World)
    /\ [][mapZoom' # mapZoom =>
             /\ clusters' = <<>>
             /\ icons' = icons - Len(clusters)
             /\ \A m \in Held(World) : ~isAdded'[m]
             /\ prevZoom' = mapZoom']_vars

\* A ready engine after a change of zoom: no cluster, and a held marker of
\* the padded viewport that is still on the map and not assigned
C11_Witness ==
    /\ ready /\ clusters = <<>> /\ Len(markers) = NumMarkers
    /\ \E m \in HeldInViewport(World) : onMap[m] /\ ~isAdded[m]

\* The number of old clusters of the pending callbacks s
RECURSIVE Sum(_)
Sum(s) == IF s = <<>> THEN 0 ELSE Len(Head(s)) + Sum(Tail(s))

\* C12: repaint removes none of the clusters it found in the collection:
\* their icons are on the map next to those of the clusters it has just
\* computed, and its scheduled callback, run in a later step, removes them.
\* Every icon on the map is that of a cluster of the collection or of an old
\* cluster of a pending callback.
C12_DeferredDisposal ==
    /\ repaint(World).icons = icons + Len(repaint(World).clusters)
    /\ repaint(World).timers = Append(timers, Ids(clusters))
    /\ icons = Len(clusters) + Sum(timers)
    /\ timers # <<>> =>
          /\ timeoutCallback(World).icons = icons - Len(Head(timers))
          /\ timeoutCallback(World).clusters = clusters

\* After a repaint that found clusters and computed new ones, before its
\* callback has run
C12_Witness ==
    /\ timers # <<>> /\ Head(timers) # <<>>
    /\ clusters # <<>>
    /\ icons = Len(clusters) + Len(Head(timers))

\* C13: Cluster.remove of a cluster that was disposed before returns without
\* a fault and changes nothing.
C13_RemoveTwice ==
    (clusters # <<>> /\ clusters[1].markers_ = NullMarkers) =>
        \A div \in BOOLEAN :
            remove(World, 1, div) = [w |-> World, ret |-> "undefined"]

\* floor(log10(n)) + 1, the number of decimal digits of n >= 1
RECURSIVE Digits(_)
Digits(n) == IF n < 10 THEN 1 ELSE 1 + Digits(n \div 10)

\* C14: for an array of n >= 1 markers and the styles of the engine, the
\* default sum calculator returns text n and index
\* min(floor(log10(n)) + 1, numStyles).
C14_SumIndex ==
    \A n \in 1..MaxCount :
        DEFAULT_SUMCALCULATOR_FUNCTION(ArrayOf(n), styles)
            = [text |-> n, index |-> Min(Digits(n), styles)]

\* C15: the default clusterizer, called as createClusters_ calls it (on a
\* held marker of the padded viewport that is not assigned), leaves the
\* marker assigned and a member of a cluster of the collection.
C15_AlwaysAssigned ==
    ready =>
        \A m \in HeldInViewport(World) :
            ~isAdded[m] =>
                /\ addToClosestCluster_(World, m).isAdded[m]
                /\ InCluster(addToClosestCluster_(World, m), m) # {}

\* The distance in degrees from the center of cluster i to marker m
Degrees(i, m) == RAbs(RSub(pos[m].lng, clusters[i].center_.lng))

\* The cluster of the collection nearest to marker m, the first of them if
\* several are as near
Nearest(m) ==
    CHOOSE i \in 1..Len(clusters) :
        /\ \A j \in 1..Len(clusters) : RLeq(Degrees(i, m), Degrees(j, m))
        /\ \A j \in 1..(i - 1) : RLess(Degrees(i, m), Degrees(j, m))

\* C16: the default clusterizer adds the marker to the cluster with the
\* nearest center when the bounds of that cluster, as they are before the
\* call, contain the marker, and leaves every other cluster alone; when they
\* do not, it appends a new cluster with the marker as its only member and
\* leaves every cluster of the collection alone.
C16_NearestOrNew ==
    \A m \in MarkerIds :
        LET after == DEFAULT_CLUSTERIZER_FUNCTION(World, m).clusters
        IN  IF clusters # <<>>
               /\ contains(clusters[Nearest(m)].bounds_, pos[m])
            THEN /\ Len(after) = Len(clusters)
                 /\ \A i \in 1..Len(clusters) :
                       i # Nearest(m) => after[i] = clusters[i]
                 /\ after[Nearest(m)].markers_ =
                        IF InSeq(m, clusters[Nearest(m)].markers_)
                        THEN clusters[Nearest(m)].markers_
                        ELSE Append(clusters[Nearest(m)].markers_, m)
            ELSE /\ Len(after) = Len(clusters) + 1
                 /\ SubSeq(after, 1, Len(clusters)) = clusters
                 /\ after[Len(after)].markers_ = <<m>>

\* A collection with a cluster of several members, and a held marker of the
\* padded viewport that is not assigned and lies outside the bounds of its
\* nearest cluster but inside those of a farther one
C16_Witness ==
    /\ ready
    /\ \E i \in 1..Len(clusters) : Len(clusters[i].markers_) >= 2
    /\ \E m \in HeldInViewport(World) :
          /\ ~isAdded[m]
          /\ ~contains(clusters[Nearest(m)].bounds_, pos[m])
          /\ \E j \in 1..Len(clusters) : contains(clusters[j].bounds_, pos[m])

C18_BeyondMaxZoom ==
    (/\ clusters # <<>>
     /\ clusters[1].markers_ # NullMarkers
     /\ maxZoom # NullNumber /\ mapZoom > maxZoom) =>
        /\ \A m \in MarkerIds :
              InSeq(m, clusters[1].markers_) => updateIcon(World, 1).onMap[m]
        /\ ~updateIcon(World, 1).clusters[1].clusterIcon_.visible_

\* C19: removeMarker(m) with noRedraw false of a held marker leaves m out
\* of the markers list, off the map and in no cluster; the icons of the
\* clusters that were in the collection have left the map, and on a ready
\* engine every held marker of the padded viewport is in a cluster again.
C19_RemoveAndRecluster ==
    \A m \in Held(World) :
        LET w == removeMarker(World, m, FALSE).w
        IN  /\ ~InSeq(m, w.markers)
            /\ ~w.onMap[m]
            /\ InCluster(w, m) = {}
            /\ w.icons = icons - Len(clusters) + Len(w.clusters)
            /\ w.ready => \A k \in HeldInViewport(w) : InCluster(w, k) # {}

\* C20: createClusters_ changes nothing when every held marker is assigned
\* or outside the padded viewport, and a second createClusters_ straight
\* after a first changes nothing: the collection, the members, centers,
\* bounds and icons of its clusters, the flags and the markers on the map
\* are those the first one left.
C20_Idempotent ==
    /\ (\A m \in Held(World) : isAdded[m] \/ m \notin HeldInViewport(World))
           => createClusters_(World) = World
    /\ createClusters_(createClusters_(World)) = createClusters_(World)

\* C21: the cluster the default clusterizer selects for a marker is the
\* nearest one, and among several at the same least distance the first of
\* the collection.
C21_FirstOfNearest ==
    \A m \in MarkerIds :
        nearestCluster(World, m, 1, RInt(LargeDistance), 0)
            = IF clusters = <<>> THEN 0 ELSE Nearest(m)

\* A held marker of the padded viewport, not assigned, at the same least
\* distance from two clusters of the collection whose bounds both contain it
C21_Witness ==
    /\ ready
    /\ \E m \in HeldInViewport(World), i, j \in 1..Len(clusters) :
          /\ ~isAdded[m]
          /\ i < j
          /\ Degrees(i, m) = Degrees(j, m)
          /\ \A k \in 1..Len(clusters) : RLeq(Degrees(i, m), Degrees(k, m))
          /\ contains(clusters[i].bounds_, pos[m])
          /\ contains(clusters[j].bounds_, pos[m])

\* C22: clearMarkers leaves the markers list and the collection empty, the
\* icon of every cluster that was in the collection off the map, and every
\* marker that was in the list off the map and not assigned.
C22_ClearMarkers ==
    LET w == clearMarkers(World)
    IN  /\ w.markers = <<>>
        /\ w.clusters = <<>>
        /\ w.icons = icons - Len(clusters)
        /\ \A m \in Held(World) : ~w.onMap[m] /\ ~w.isAdded[m]

\* A ready engine holding every marker in two clusters or more, some of the
\* markers on the map and some hidden, with a repaint callback pending: the
\* icons clearMarkers leaves are those of the callback
C22_Witness ==
    /\ ready /\ Len(markers) = NumMarkers /\ Len(clusters) >= 2
    /\ \E m \in Held(World) : onMap[m] /\ isAdded[m]
    /\ \E m \in Held(World) : ~onMap[m] /\ isAdded[m]
    /\ timers # <<>>
    /\ clearMarkers(World).icons = Len(Head(timers))
    /\ Head(timers) # <<>>



\* C23: the callback scheduled by repaint, run in any state in which it is
\* pending, disposes of its old clusters only: the markers list, the
\* collection with the members, centers, bounds and icons of its clusters,
\* the assigned flag and the map of every marker, and all the rest of the
\* engine but the pending callbacks and the icons on the map are as before.
C23_DisposalFrame ==
    timers # <<>> =>
        /\ World = [timeoutCallback(World) EXCEPT !.timers = timers,
                       !.icons = icons, !.disposed = disposed]
        /\ timeoutCallback(World).timers = Tail(timers)

\* Two callbacks are pending, the older one with old clusters, after a
\* second repaint has put clusters in the collection, with markers on the
\* map and markers hidden behind a cluster icon: the callback takes the
\* old icons off the map
C23_Witness ==
    /\ Len(timers) = MaxPending /\ Head(timers) # <<>>
    /\ clusters # <<>>
    /\ \E m \in Held(World) : onMap[m] /\ isAdded[m]
    /\ \E m \in Held(World) : ~onMap[m] /\ isAdded[m]
    /\ timeoutCallback(World).icons < icons


\* C24: however repaint, its callbacks and the resets of the viewport are
\* interleaved, no handler disposes of a cluster that was disposed before,
\* which would read the length of its null member list; no cluster of the
\* collection, the clusters handed to the strategy, is disposed or has a
\* null member list; and the old clusters of the pending callbacks are
\* different objects, none of them disposed or in the collection.
C24_DisposedOnce ==
    /\ ~thrown
    /\ \A k \in 1..Len(clusters) :
          /\ clusters[k].id \notin disposed
          /\ clusters[k].markers_ # NullMarkers
    /\ \A k \in 1..Len(InOrder(World)) :
          /\ InOrder(World)[k] \notin disposed
          /\ \A j \in 1..(k - 1) : InOrder(World)[j] # InOrder(World)[k]

\* Two callbacks are pending, each with old clusters, and the collection has
\* clusters again
C24_Witness ==
    /\ Len(timers) = MaxPending
    /\ \A k \in 1..Len(timers) : timers[k] # <<>>
    /\ Len(clusters) >= 2


\* C25: with the default strategy, every cluster of the collection has a
\* member list that is not null and not empty, a center and extended
\* bounds, in every reachable state: isMarkerInClusterBounds and getBounds
\* never meet a cluster of the collection without members.
C25_NoEmptyCluster ==
    \A k \in 1..Len(clusters) :
        /\ clusters[k].markers_ # NullMarkers
        /\ Len(clusters[k].markers_) >= 1
        /\ clusters[k].center_ # NullLatLng
        /\ clusters[k].bounds_ # NullBounds

\* The strategy has made a cluster of one marker and a cluster of several,
\* and a marker that is still a member of a cluster was taken out of the
\* markers list since
C25_Witness ==
    /\ \E k \in 1..Len(clusters) : Len(clusters[k].markers_) = 1
    /\ \E k \in 1..Len(clusters) : Len(clusters[k].markers_) >= 2
    /\ \E k \in 1..Len(clusters) :
          \E j \in 1..Len(clusters[k].markers_) :
              clusters[k].markers_[j] \notin Held(World)


\* C26: in every reachable state, a marker of the markers list has the
\* assigned flag exactly when it is a member of a cluster of the collection.
C26_FlagIffMember ==
    \A m \in Held(World) : isAdded[m] <=> InCluster(World, m) # {}


\* C27: in every reachable state, no marker that is on the map is a member
\* of a cluster of the collection whose icon is visible.
C27_MarkerOrIcon ==
    \A k \in 1..Len(clusters) :
        clusters[k].clusterIcon_.visible_ =>
            \A j \in 1..Len(clusters[k].markers_) :
                ~onMap[clusters[k].markers_[j]]

====
